---- MODULE Spec2Model ----
(***************************************************************************)
(* Model of the stock-sentiment data pipeline:                             *)
(*   src/src/data_loader.py    validate_data, load_data                    *)
(*   src/scripts/preprocess.py standardize_column_names, parse_dates,      *)
(*                             handle_missing_values, preprocess_data      *)
(*                                                                         *)
(* A table (pandas DataFrame) is a record [cols, rows]: cols is the set of *)
(* column names, rows a sequence of functions from cols to cells.  A cell  *)
(* is a string token: a raw string as it stands in the data, the missing   *)
(* marker NaN, or a parsed timestamp (timezone-aware, timezone-naive, or   *)
(* the missing timestamp NaT).  Tables with two columns of the same name   *)
(* are outside the model.                                                  *)
(*                                                                         *)
(* Python objects matter for mutation: `caller` is the table object the    *)
(* caller passed in, `df` is the function's local table, and `aliased`     *)
(* says that the local name still refers to the caller's object, so that   *)
(* an in-place column assignment writes through to `caller`.               *)
(***************************************************************************)
EXTENDS Naturals, Sequences, FiniteSets

VARIABLES
    fn,       \* the public function the caller invoked
    args,     \* its keyword arguments: date_col, required_cols, validate
    file,     \* what the file system holds at `path` (load_data only)
    caller,   \* the table object owned by the caller
    df,       \* the local variable df of the running function
    aliased,  \* TRUE while the local df is the caller's own object
    pc,       \* position of the running function
    ran,      \* the steps executed so far, in order
    log,      \* records emitted through logger, in order
    result    \* what the call handed back: a return value or a raised error

vars == <<fn, args, file, caller, df, aliased, pc, ran, log, result>>

(***************************************************************************)
(* Bounds                                                                  *)
(***************************************************************************)
MaxRows == 2

(***************************************************************************)
(* Cells                                                                   *)
(***************************************************************************)
NaN == "NaN"                                  \* None / numpy.nan
NaT == "NaT"                                  \* pandas.NaT
RawM4 == "2023-01-01 10:00:00-04:00"          \* date string, offset -04:00
RawM5 == "2023-01-02 11:00:00-05:00"          \* date string, offset -05:00
RawBad == "not a date"                        \* no date parser accepts it
AwareM4 == "Timestamp(2023-01-01 10:00:00-04:00)"
AwareM5 == "Timestamp(2023-01-02 11:00:00-05:00)"
NaiveM4 == "Timestamp(2023-01-01 10:00:00)"
NaiveM5 == "Timestamp(2023-01-02 11:00:00)"
Headline1 == "Test headline 1"
Text == "AAPL"

AwareTimestamps == {AwareM4, AwareM5}
NaiveTimestamps == {NaiveM4, NaiveM5}

\* pandas.isna on a scalar
IsNull(c) == c \in {NaN, NaT}

\* UTC offset carried by a parsed timestamp
TzOf(c) ==
    CASE c = AwareM4 -> "-04:00"
      [] c = AwareM5 -> "-05:00"
      [] OTHER -> "naive"

\* Can a date parser read this scalar at all?
Parseable(c) == c \in {RawM4, RawM5, NaN, NaT} \cup AwareTimestamps \cup NaiveTimestamps

\* pandas.to_datetime on one scalar that Parseable accepts; anything else is
\* what errors='coerce' turns into NaT.
ToDatetimeCell(c) ==
    CASE c = RawM4 -> AwareM4
      [] c = RawM5 -> AwareM5
      [] c \in AwareTimestamps \cup NaiveTimestamps -> c
      [] OTHER -> NaT

\* tz_localize(None) forgotten: the offset stays
TzLocalizeKept(c) == c

\* Timestamp.tz_localize(None): drop the offset, keep the wall-clock time
TzLocalizeNone(c) ==
    CASE c = AwareM4 -> NaiveM4
      [] c = AwareM5 -> NaiveM5
      [] OTHER -> c

\* str.len() of one scalar of the headline column
StrLen(c) ==
    CASE c = Headline1 -> "15"
      [] c = Text -> "4"
      [] c = RawBad -> "10"
      [] OTHER -> NaN

(***************************************************************************)
(* Tables                                                                  *)
(***************************************************************************)
NoTable == [cols |-> {}, rows |-> <<>>]

Column(t, c) == [i \in 1..Len(t.rows) |-> t.rows[i][c]]

\* df[c] = values, in place
SetColumn(t, c, values) ==
    [cols |-> t.cols \cup {c},
     rows |-> [i \in 1..Len(t.rows) |->
                 [k \in t.cols \cup {c} |-> IF k = c THEN values[i] ELSE t.rows[i][k]]]]

\* DataFrame.empty: some axis has length 0
IsEmpty(t) == Len(t.rows) = 0 \/ t.cols = {}

RECURSIVE KeepRows(_, _)
\* the rows whose entry in the boolean mask `keep` is TRUE, in their original order
KeepRows(rows, keep) ==
    IF rows = <<>> THEN <<>>
    ELSE IF keep[1]
         THEN <<Head(rows)>> \o KeepRows(Tail(rows), Tail(keep))
         ELSE KeepRows(Tail(rows), Tail(keep))

Range(seq) == {seq[i] : i \in DOMAIN seq}

(***************************************************************************)
(* Outcomes of one function: a returned table or a raised error, together  *)
(* with the records it logged.                                             *)
(***************************************************************************)
LogRec(level, event, detail) == [level |-> level, event |-> event, detail |-> detail]

Returned(t, logs) == [ok |-> TRUE, err |-> "", msg |-> "", table |-> t, logs |-> logs]
Raised(err, msg, logs) == [ok |-> FALSE, err |-> err, msg |-> msg, table |-> NoTable, logs |-> logs]


(***************************************************************************)
(* scripts/preprocess.py                                                   *)
(***************************************************************************)
\* str(x).lower().replace(" ", "_") on the column names of the model
StdName(x) ==
    CASE x \in {"Headline", "HEADLINE"} -> "headline"
      [] x = "URL" -> "url"
      [] x \in {"Publisher", "PUBLISHER"} -> "publisher"
      [] x \in {"Date", "DATE"} -> "date"
      [] x \in {"Stock", "STOCK"} -> "stock"
      [] x = "Pub Date" -> "pub_date"
      [] OTHER -> x

\* df.rename(columns=...): a new table object, cells untouched
standardize_column_names(t) ==
    LET newcols == {StdName(c) : c \in t.cols}
        old(k) == CHOOSE c \in t.cols : StdName(c) = k
    IN [cols |-> newcols,
        rows |-> [i \in 1..Len(t.rows) |-> [k \in newcols |-> t.rows[i][old(k)]]]]

\* Errors a series of timestamps with more than one UTC offset ends in: up to
\* pandas 2 to_datetime yields an object column and the .dt accessor raises
\* AttributeError, from pandas 3 to_datetime itself raises ValueError.
MixedOffsetErrors == {"AttributeError", "ValueError"}

\* The offsets found among the parsed values of a column
Offsets(parsed) == {TzOf(parsed[i]) : i \in {j \in DOMAIN parsed : parsed[j] # NaT}}

\* parse_dates(df, date_col): the set of outcomes; a returned table is the
\* argument object itself after `df[date_col] = ...`.
parse_dates(t, date_col) ==
    IF date_col \notin t.cols
    THEN {Raised("ValueError", date_col, <<>>)}
    ELSE LET raw == Column(t, date_col)
             parsed == [i \in DOMAIN raw |-> ToDatetimeCell(raw[i])]
             naive == [i \in DOMAIN raw |-> TzLocalizeNone(parsed[i])]
         IN IF \E i \in DOMAIN raw : ~Parseable(raw[i])
            THEN {Raised("ValueError", "unparseable",
                         <<LogRec("ERROR", "Error parsing dates", "ValueError")>>)}
            ELSE IF Cardinality(Offsets(parsed)) > 1
            THEN {Raised(e, "mixed offsets", <<LogRec("ERROR", "Error parsing dates", e)>>)
                    : e \in MixedOffsetErrors}
            ELSE {Returned(SetColumn(t, date_col, naive),
                           <<LogRec("INFO", "Successfully parsed", date_col)>>)}

DefaultRequiredCols == {"date", "headline", "stock"}

\* required_cols=None is [given |-> FALSE]
NoneArg == [given |-> FALSE, cols |-> {}]
ListArg(cols) == [given |-> TRUE, cols |-> cols]

\* dropna() without subset=: a missing value in any column drops the row
DropNaAnyColumn(t, cols) ==
    [cols |-> t.cols,
     rows |-> KeepRows(t.rows,
                       [i \in 1..Len(t.rows) |-> \A c \in t.cols : ~IsNull(t.rows[i][c])])]

\* DataFrame.dropna(subset=cols): a new table object
DropNa(t, cols) ==
    [cols |-> t.cols,
     rows |-> KeepRows(t.rows,
                       [i \in 1..Len(t.rows) |-> \A c \in cols : ~IsNull(t.rows[i][c])])]

\* handle_missing_values(df, required_cols)
handle_missing_values(t, required_cols) ==
    LET cols == IF required_cols.given THEN required_cols.cols ELSE DefaultRequiredCols
    IN IF ~(cols \subseteq t.cols)
       THEN Raised("KeyError", "dropna subset", <<>>)
       ELSE LET kept == DropNa(t, cols)
            IN Returned(kept,
                        IF Len(t.rows) - Len(kept.rows) > 0
                        THEN <<LogRec("WARNING", "Dropped rows", "missing values")>>
                        ELSE <<>>)

\* Errors the plotting calls (seaborn, matplotlib, Series.plot) can end in
\* when the data handed to them is empty; which of them raise depends on the
\* libraries.
EmptyPlotErrors == {"TypeError", "ValueError"}

\* A plot of what is derived from column c of t.  Missing values do not
\* reach the plot (value_counts, groupby and the histogram drop them), so the
\* plotted data is empty when the column holds no value, in particular when
\* the table has no rows.
PlotOutcomes(t, c) ==
    {Returned(t, <<>>)} \cup
    (IF \A i \in 1..Len(t.rows) : IsNull(t.rows[i][c])
     THEN {Raised(e, "no data to plot", <<>>) : e \in EmptyPlotErrors}
     ELSE {})

\* line 114: df['headline_length'] = df['headline'].str.len(), in place.  The
\* .str accessor raises AttributeError on a column that is not of string
\* type, which a headline column holding nothing but numpy.nan (so also one
\* without rows) can be.
headline_length(t) ==
    IF "headline" \notin t.cols THEN {Raised("KeyError", "headline", <<>>)}
    ELSE {Returned(SetColumn(t, "headline_length",
                             [i \in 1..Len(t.rows) |-> StrLen(t.rows[i]["headline"])]),
                   <<>>)}
         \cup (IF \A i \in 1..Len(t.rows) : IsNull(t.rows[i]["headline"])
               THEN {Raised("AttributeError", ".str accessor", <<>>)}
               ELSE {})

\* lines 117-121: describe() and the histogram of headline_length
headline_plot(t) == PlotOutcomes(t, "headline_length")

\* lines 127-136: value_counts() of publisher and the bar plot
publisher_counts(t) ==
    IF "publisher" \notin t.cols THEN {Raised("KeyError", "publisher", <<>>)}
    ELSE PlotOutcomes(t, "publisher")

\* lines 140-149: df['date'] = pd.to_datetime(df['date']) in place, the
\* articles per day through .dt.date, and the line plot
daily_counts(t) ==
    IF "date" \notin t.cols THEN {Raised("KeyError", "date", <<>>)}
    ELSE LET raw == Column(t, "date")
             parsed == [i \in DOMAIN raw |-> ToDatetimeCell(raw[i])]
         IN IF \E i \in DOMAIN raw : ~Parseable(raw[i])
            THEN {Raised("ValueError", "unparseable", <<>>)}
            ELSE IF Cardinality(Offsets(parsed)) > 1
            THEN {Raised(e, "mixed offsets", <<>>) : e \in MixedOffsetErrors}
            ELSE PlotOutcomes(SetColumn(t, "date", parsed), "date")

(***************************************************************************)
(* What a call hands back to its caller                                    *)
(***************************************************************************)
NoReason == [kind |-> "None", missing |-> <<>>, counts |-> <<>>, bad |-> <<>>, more |-> FALSE]

Pending == [status |-> "none", err |-> "", msg |-> "", table |-> NoTable,
            valid |-> FALSE, reason |-> NoReason]
ReturnTable(t) == [Pending EXCEPT !.status = "returned", !.table = t]
RaiseError(err, msg) == [Pending EXCEPT !.status = "raised", !.err = err, !.msg = msg]

NoFile == [exists |-> FALSE, header |-> {}, rows |-> <<>>]
NoArgs == [date_col |-> "date", required_cols |-> NoneArg, validate |-> TRUE]

(***************************************************************************)
(* preprocess_data, one action per statement of its try block.  An error   *)
(* raised by a step is caught by `except Exception`, logged and re-raised. *)
(***************************************************************************)
PreFail(o) ==
    /\ log' = log \o o.logs \o <<LogRec("ERROR", "Error during preprocessing", o.err)>>
    /\ result' = RaiseError(o.err, o.msg)
    /\ pc' = "done"

\* lines 100-103
PreStart ==
    /\ fn = "preprocess_data" /\ pc = "start"
    /\ ran' = Append(ran, "empty_check")
    /\ IF IsEmpty(caller)
       THEN /\ log' = log \o <<LogRec("INFO", "Starting data preprocessing", ""),
                              LogRec("ERROR", "Error during preprocessing", "ValueError")>>
            /\ result' = RaiseError("ValueError", "Input DataFrame is empty")
            /\ pc' = "done"
       ELSE /\ log' = Append(log, LogRec("INFO", "Starting data preprocessing", ""))
            /\ pc' = "copy"
            /\ UNCHANGED result
    /\ UNCHANGED <<fn, args, file, caller, df, aliased>>

\* line 106: df = df.copy()
PreCopy ==
    /\ fn = "preprocess_data" /\ pc = "copy"
    /\ ran' = Append(ran, "copy")
    /\ df' = caller
    /\ aliased' = FALSE
    /\ pc' = "standardize"
    /\ UNCHANGED <<fn, args, file, caller, log, result>>

\* The table the local name df refers to
Local == IF aliased THEN caller ELSE df

\* df = <a new table object>
Rebind(t) == df' = t /\ aliased' = FALSE /\ UNCHANGED caller

\* the copy shares its columns with the caller's table: an in-place write
\* shows in both
WriteShared(t) == caller' = t /\ df' = t /\ UNCHANGED aliased

\* an in-place write to the object df refers to
WriteThrough(t) ==
    IF aliased THEN caller' = t /\ UNCHANGED <<df, aliased>>
    ELSE df' = t /\ UNCHANGED <<caller, aliased>>

\* rows are dropped before the dates are parsed
PreStandardizeThenDrop ==
    /\ fn = "preprocess_data" /\ pc = "standardize"
    /\ ran' = Append(ran, "standardize_column_names")
    /\ Rebind(standardize_column_names(Local))
    /\ pc' = "handle_missing_values"
    /\ UNCHANGED <<fn, args, file, log, result>>

\* line 109
PreStandardize ==
    /\ fn = "preprocess_data" /\ pc = "standardize"
    /\ ran' = Append(ran, "standardize_column_names")
    /\ Rebind(standardize_column_names(Local))
    /\ pc' = "parse_dates"
    /\ UNCHANGED <<fn, args, file, log, result>>

\* line 110
PreParseDates ==
    /\ fn = "preprocess_data" /\ pc = "parse_dates"
    /\ ran' = Append(ran, "parse_dates")
    /\ \E o \in parse_dates(Local, "date") :
         IF o.ok
         THEN /\ WriteThrough(o.table)
              /\ log' = log \o o.logs
              /\ pc' = "handle_missing_values"
              /\ UNCHANGED result
         ELSE /\ PreFail(o)
              /\ UNCHANGED <<caller, df, aliased>>
    /\ UNCHANGED <<fn, args, file>>

\* line 111
PreHandleMissing ==
    /\ fn = "preprocess_data" /\ pc = "handle_missing_values"
    /\ ran' = Append(ran, "handle_missing_values")
    /\ LET o == handle_missing_values(Local, NoneArg)
       IN IF o.ok
          THEN /\ Rebind(o.table)
               /\ log' = log \o o.logs
               /\ pc' = "headline_length"
               /\ UNCHANGED result
          ELSE /\ PreFail(o)
               /\ UNCHANGED <<caller, df, aliased>>
    /\ UNCHANGED <<fn, args, file>>

\* lines 114-125.  The step ends inside plt.show(): the next one starts when
\* that call returns.  A failure of the plot leaves headline_length written
\* to the local table.
PreHeadlineLength ==
    /\ fn = "preprocess_data" /\ pc = "headline_length"
    /\ ran' = Append(ran, "headline_length")
    /\ \E o \in headline_length(Local) :
         IF ~o.ok
         THEN PreFail(o) /\ UNCHANGED <<caller, df, aliased>>
         ELSE /\ WriteThrough(o.table)
              /\ \E p \in headline_plot(o.table) :
                   IF p.ok
                   THEN pc' = "publisher_counts" /\ UNCHANGED <<log, result>>
                   ELSE PreFail(p)
    /\ UNCHANGED <<fn, args, file>>

\* lines 127-137, ending inside the second plt.show()
PrePublisherCounts ==
    /\ fn = "preprocess_data" /\ pc = "publisher_counts"
    /\ ran' = Append(ran, "publisher_counts")
    /\ \E o \in publisher_counts(Local) :
         IF o.ok
         THEN pc' = "daily_counts" /\ UNCHANGED <<log, result>>
         ELSE PreFail(o)
    /\ UNCHANGED <<fn, args, file, caller, df, aliased>>

\* lines 140-150, ending inside the third plt.show()
PreDailyCounts ==
    /\ fn = "preprocess_data" /\ pc = "daily_counts"
    /\ ran' = Append(ran, "daily_counts")
    /\ \E o \in daily_counts(Local) :
         IF o.ok
         THEN /\ WriteThrough(o.table)
              /\ pc' = "return"
              /\ UNCHANGED <<log, result>>
         ELSE IF "date" \in Local.cols /\ o.msg = "no data to plot"
         THEN /\ PreFail(o)
              /\ WriteThrough(SetColumn(Local, "date",
                    [i \in 1..Len(Local.rows) |-> ToDatetimeCell(Local.rows[i]["date"])]))
         ELSE PreFail(o) /\ UNCHANGED <<caller, df, aliased>>
    /\ UNCHANGED <<fn, args, file>>

\* lines 152-153
PreReturn ==
    /\ fn = "preprocess_data" /\ pc = "return"
    /\ ran' = Append(ran, "return")
    /\ log' = Append(log, LogRec("INFO", "Data preprocessing completed", ""))
    /\ result' = ReturnTable(Local)
    /\ pc' = "done"
    /\ UNCHANGED <<fn, args, file, caller, df, aliased>>

(***************************************************************************)
(* The three steps called directly on the caller's table                   *)
(***************************************************************************)
CallStandardize ==
    /\ fn = "standardize_column_names" /\ pc = "start"
    /\ ran' = Append(ran, "standardize_column_names")
    /\ Rebind(standardize_column_names(Local))
    /\ result' = ReturnTable(standardize_column_names(Local))
    /\ pc' = "done"
    /\ UNCHANGED <<fn, args, file, log>>

CallParseDates ==
    /\ fn = "parse_dates" /\ pc = "start"
    /\ ran' = Append(ran, "parse_dates")
    /\ \E o \in parse_dates(Local, args.date_col) :
         /\ log' = log \o o.logs
         /\ IF o.ok
            THEN WriteThrough(o.table) /\ result' = ReturnTable(o.table)
            ELSE result' = RaiseError(o.err, o.msg) /\ UNCHANGED <<caller, df, aliased>>
    /\ pc' = "done"
    /\ UNCHANGED <<fn, args, file>>

CallHandleMissing ==
    /\ fn = "handle_missing_values" /\ pc = "start"
    /\ ran' = Append(ran, "handle_missing_values")
    /\ LET o == handle_missing_values(Local, args.required_cols)
       IN /\ log' = log \o o.logs
          /\ IF o.ok
             THEN Rebind(o.table) /\ result' = ReturnTable(o.table)
             ELSE result' = RaiseError(o.err, o.msg) /\ UNCHANGED <<caller, df, aliased>>
    /\ pc' = "done"
    /\ UNCHANGED <<fn, args, file>>

(***************************************************************************)
(* Inputs of the preprocessing functions                                   *)
(***************************************************************************)
PreSchemas ==
    { {"Headline", "URL", "Publisher", "Date", "Stock"},
      {"headline", "url", "publisher", "date", "stock"},
      {"HEADLINE", "Pub Date", "STOCK"},
      {"date", "headline", "stock"},
      {"Date", "URL"} }

\* Values a column of the input holds, by the meaning of the column
PreCells ==
    [c \in UNION PreSchemas |->
       CASE StdName(c) = "date" -> {NaN, RawBad, RawM4, RawM5}
         [] StdName(c) = "headline" -> {NaN, Headline1}
         [] StdName(c) = "publisher" -> {NaN, Text}
         [] StdName(c) = "stock" -> {NaN, Text}
         [] StdName(c) = "pub_date" -> {RawM4}
         [] OTHER -> {Text}]

RECURSIVE RowsOver(_, _)
\* The rows over a set of columns, each cell drawn from the values cells[c]
\* of its column c
RowsOver(schema, cells) ==
    IF schema = {} THEN {<<>>}
    ELSE LET c == CHOOSE x \in schema : TRUE
             rest == RowsOver(schema \ {c}, cells)
         IN {[k \in schema |-> IF k = c THEN v ELSE r[k]] : v \in cells[c], r \in rest}

\* caller is a table over one of the schemas with at most MaxRows rows, or
\* the table without columns, pd.DataFrame()
IsTableOver(t, schemas, cells) ==
    \E s \in schemas : \E n \in 0..MaxRows : \E rs \in [1..n -> RowsOver(s, cells)] :
      t = [cols |-> s, rows |-> rs]

PreCalls ==
    {[fn |-> "preprocess_data", args |-> NoArgs],
     [fn |-> "standardize_column_names", args |-> NoArgs]}
    \cup {[fn |-> "parse_dates", args |-> [NoArgs EXCEPT !.date_col = c]]
            : c \in {"date", "Date"}}
    \cup {[fn |-> "handle_missing_values", args |-> [NoArgs EXCEPT !.required_cols = r]]
            : r \in {NoneArg, ListArg({"headline"}), ListArg({"date", "publisher"})}}

InitPreprocess ==
    /\ \E c \in PreCalls : fn = c.fn /\ args = c.args
    /\ \/ IsTableOver(caller, PreSchemas, PreCells)
       \/ caller = NoTable
    /\ file = NoFile
    /\ df = NoTable
    /\ aliased = TRUE
    /\ pc = "start"
    /\ ran = <<>>
    /\ log = <<>>
    /\ result = Pending

NextPreprocess ==
    \/ PreStart
    \/ PreCopy
    \/ PreStandardize
    \/ PreParseDates
    \/ PreHandleMissing
    \/ PreHeadlineLength
    \/ PrePublisherCounts
    \/ PreDailyCounts
    \/ PreReturn
    \/ CallStandardize
    \/ CallParseDates
    \/ CallHandleMissing

SpecPreprocess == InitPreprocess /\ [][NextPreprocess]_vars


(***************************************************************************)
(* src/data_loader.py                                                      *)
(***************************************************************************)
RequiredColumns == <<"headline", "url", "publisher", "date", "stock">>

\* stops at the first missing column
MissingColsFirstOnly(t) ==
    SubSeq(SelectSeq(RequiredColumns, LAMBDA c : c \notin t.cols), 1, 1)

\* [col for col in required_columns if col not in df.columns]
MissingCols(t) == SelectSeq(RequiredColumns, LAMBDA c : c \notin t.cols)

\* df[required_columns].isnull().sum()
NullCounts(t) ==
    [c \in Range(RequiredColumns) |->
       Cardinality({i \in 1..Len(t.rows) : IsNull(t.rows[i][c])})]

\* null_counts.to_dict() without the > 0 filter
AllCounts(counts) == counts

\* null_counts[null_counts > 0].to_dict()
PositiveCounts(counts) ==
    [c \in {k \in DOMAIN counts : counts[k] > 0} |-> counts[c]]

RECURSIVE Unique(_)
\* Series.unique(): the distinct values in order of first appearance
Unique(seq) ==
    IF seq = <<>> THEN <<>>
    ELSE LET init == Unique(SubSeq(seq, 1, Len(seq) - 1))
             last == seq[Len(seq)]
         IN IF last \in Range(init) THEN init ELSE Append(init, last)

\* df.loc[parsed_dates.isnull(), 'date'].unique(), parsed with errors='coerce'
\* (every value that parses is taken to parse on its own, whatever its
\* neighbours look like)
BadDates(t) ==
    Unique(SelectSeq(Column(t, "date"), LAMBDA c : IsNull(ToDatetimeCell(c))))

MaxBadShown == 5

\* validate_data(df) -> (is_valid, error_message): the message is kept as
\* its headline and the value interpolated into it
validate_data(t) ==
    IF MissingCols(t) # <<>>
    THEN [valid |-> FALSE,
          reason |-> [NoReason EXCEPT !.kind = "Missing required columns",
                                      !.missing = MissingCols(t)]]
    ELSE IF \E c \in Range(RequiredColumns) : NullCounts(t)[c] > 0
    THEN [valid |-> FALSE,
          reason |-> [NoReason EXCEPT !.kind = "Found null values in columns",
                                      !.counts = PositiveCounts(NullCounts(t))]]
    ELSE IF BadDates(t) # <<>>
    THEN [valid |-> FALSE,
          reason |-> [NoReason EXCEPT
                        !.kind = "Some dates could not be parsed",
                        !.bad = SubSeq(BadDates(t), 1,
                                       IF Len(BadDates(t)) > MaxBadShown
                                       THEN MaxBadShown ELSE Len(BadDates(t))),
                        !.more = Len(BadDates(t)) > MaxBadShown]]
    ELSE [valid |-> TRUE, reason |-> NoReason]

\* validate_data called directly on the caller's table
CallValidate ==
    /\ fn = "validate_data" /\ pc = "start"
    /\ ran' = Append(ran, "validate_data")
    /\ result' = [Pending EXCEPT !.status = "returned",
                                 !.valid = validate_data(caller).valid,
                                 !.reason = validate_data(caller).reason]
    /\ pc' = "done"
    /\ UNCHANGED <<fn, args, file, caller, df, aliased, log>>

\* Field values pandas.read_csv reads as missing
CsvNaValues == {"", "NA", "NaN", "null"}

ReadCsvCell(s) == IF s \in CsvNaValues THEN NaN ELSE s

\* pd.read_csv(path) on a file with a header line
read_csv(f) ==
    [cols |-> f.header,
     rows |-> [i \in 1..Len(f.rows) |-> [c \in f.header |-> ReadCsvCell(f.rows[i][c])]]]

\* `except Exception as e: logger.error(...); raise`
LoadFail(err, msg, reason) ==
    /\ log' = Append(log, LogRec("ERROR", "Error loading data", err))
    /\ result' = [RaiseError(err, msg) EXCEPT !.reason = reason]
    /\ pc' = "done"

\* lines 72-76
LoadExists ==
    /\ fn = "load_data" /\ pc = "start"
    /\ ran' = Append(ran, "exists")
    /\ IF ~file.exists
       THEN /\ log' = log \o <<LogRec("INFO", "Loading data", ""),
                              LogRec("ERROR", "Error loading data", "FileNotFoundError")>>
            /\ result' = RaiseError("FileNotFoundError", "File not found")
            /\ pc' = "done"
       ELSE /\ log' = Append(log, LogRec("INFO", "Loading data", ""))
            /\ pc' = "read_csv"
            /\ UNCHANGED result
    /\ UNCHANGED <<fn, args, file, caller, df, aliased>>

\* line 79: a file without a header line makes read_csv itself raise
LoadReadCsv ==
    /\ fn = "load_data" /\ pc = "read_csv"
    /\ ran' = Append(ran, "read_csv")
    /\ IF file.header = {}
       THEN /\ LoadFail("EmptyDataError", "No columns to parse from file", NoReason)
            /\ UNCHANGED <<df, aliased>>
       ELSE /\ Rebind(read_csv(file))
            /\ pc' = "empty_check"
            /\ UNCHANGED <<log, result>>
    /\ UNCHANGED <<fn, args, file, caller>>

\* the emptiness test left out
LoadEmptyCheckSkipped ==
    /\ fn = "load_data" /\ pc = "empty_check"
    /\ ran' = Append(ran, "empty_check")
    /\ pc' = IF args.validate THEN "validate" ELSE "to_datetime"
    /\ UNCHANGED <<fn, args, file, caller, df, aliased, log, result>>

\* lines 81-85
LoadEmptyCheck ==
    /\ fn = "load_data" /\ pc = "empty_check"
    /\ ran' = Append(ran, "empty_check")
    /\ IF IsEmpty(Local)
       THEN LoadFail("EmptyDataError", "The loaded file is empty", NoReason)
       ELSE /\ pc' = IF args.validate THEN "validate" ELSE "to_datetime"
            /\ UNCHANGED <<log, result>>
    /\ UNCHANGED <<fn, args, file, caller, df, aliased>>

\* lines 86-88
LoadValidate ==
    /\ fn = "load_data" /\ pc = "validate"
    /\ ran' = Append(ran, "validate_data")
    /\ LET v == validate_data(Local)
       IN IF ~v.valid
          THEN LoadFail("DataValidationError", v.reason.kind, v.reason)
          ELSE pc' = "to_datetime" /\ UNCHANGED <<log, result>>
    /\ UNCHANGED <<fn, args, file, caller, df, aliased>>

\* lines 91-94
LoadToDatetime ==
    /\ fn = "load_data" /\ pc = "to_datetime"
    /\ ran' = Append(ran, "to_datetime")
    /\ IF "date" \notin Local.cols
       THEN /\ LoadFail("KeyError", "date", NoReason)
            /\ UNCHANGED <<caller, df, aliased>>
       ELSE LET coerced == [i \in 1..Len(Local.rows) |-> ToDatetimeCell(Local.rows[i]["date"])]
                out == SetColumn(Local, "date", coerced)
            IN /\ WriteThrough(out)
               /\ log' = Append(log, LogRec("INFO", "Successfully loaded", ""))
               /\ result' = ReturnTable(out)
               /\ pc' = "done"
    /\ UNCHANGED <<fn, args, file>>

(***************************************************************************)
(* Inputs of the loader functions.  Every parseable date of a column has   *)
(* the same format and offset, as in the fixtures of the tests.            *)
(***************************************************************************)
ValCells ==
    [c \in Range(RequiredColumns) |-> IF c = "date" THEN {NaN, RawBad, RawM4} ELSE {NaN, Text}]

ValSchemas == SUBSET Range(RequiredColumns)

FileSchemas ==
    { {"headline", "url", "publisher", "date", "stock"},
      {"Headline", "URL", "Publisher", "Date", "Stock"},
      {"headline", "stock"} }

FileCells ==
    [c \in UNION FileSchemas |->
       CASE StdName(c) = "date" -> {"", RawBad, RawM4}
         [] StdName(c) = "headline" -> {"NA", Headline1}
         [] StdName(c) = "stock" -> {"", Text}
         [] OTHER -> {Text}]

\* A file holds a header line and at most MaxRows lines of fields
IsFileOver(f, schemas, cells) ==
    \E s \in schemas : \E n \in 0..MaxRows : \E rs \in [1..n -> RowsOver(s, cells)] :
      f = [exists |-> TRUE, header |-> s, rows |-> rs]

ZeroByteFile == [exists |-> TRUE, header |-> {}, rows |-> <<>>]

InitLoader ==
    /\ \/ /\ fn = "validate_data" /\ args = NoArgs
          /\ IsTableOver(caller, ValSchemas, ValCells)
          /\ file = NoFile
          /\ aliased = TRUE
       \/ /\ fn = "load_data"
          /\ \E v \in BOOLEAN : args = [NoArgs EXCEPT !.validate = v]
          /\ caller = NoTable
          /\ \/ file = NoFile
             \/ file = ZeroByteFile
             \/ IsFileOver(file, FileSchemas, FileCells)
          /\ aliased = FALSE
    /\ df = NoTable
    /\ pc = "start"
    /\ ran = <<>>
    /\ log = <<>>
    /\ result = Pending

NextLoader ==
    \/ CallValidate
    \/ LoadExists
    \/ LoadReadCsv
    \/ LoadEmptyCheck
    \/ LoadValidate
    \/ LoadToDatetime

SpecLoader == InitLoader /\ [][NextLoader]_vars


(***************************************************************************)
(* Properties                                                              *)
(***************************************************************************)
Done(f) == fn = f /\ pc = "done"
Required == {"headline", "url", "publisher", "date", "stock"}
NullsIn(t, c) == {i \in 1..Len(t.rows) : t.rows[i][c] \in {NaN, NaT}}
Last(seq) == seq[Len(seq)]
IsPrefix(a, b) == Len(a) <= Len(b) /\ \A i \in 1..Len(a) : a[i] = b[i]

\* C1: validate_data on a table missing required columns returns invalid
\* with a reason that lists exactly the missing names and holds no null count
\* and no date sample; it returns (valid, no reason) only for a table with
\* all five columns, no null in them and only dates that coerce.
C1_ValidatePrecedence ==
    Done("validate_data") =>
      /\ result.status = "returned"
      /\ (Required \ caller.cols # {}) =>
           /\ ~result.valid
           /\ result.reason.kind = "Missing required columns"
           /\ Range(result.reason.missing) = Required \ caller.cols
           /\ Len(result.reason.missing) = Cardinality(Required \ caller.cols)
           /\ DOMAIN result.reason.counts = {}
           /\ result.reason.bad = <<>>
      /\ result.valid =>
           /\ result.reason = NoReason
           /\ Required \subseteq caller.cols
           /\ \A c \in Required : NullsIn(caller, c) = {}
           /\ \A i \in 1..Len(caller.rows) : caller.rows[i]["date"] \in {RawM4, RawM5}

\* C1 witness: two columns are missing while a present column holds a null
\* and the date column holds an unparseable value.
C1_Witness ==
    /\ Done("validate_data")
    /\ Cardinality(Required \ caller.cols) = 2
    /\ "date" \in caller.cols /\ "headline" \in caller.cols
    /\ \E i \in 1..Len(caller.rows) :
         caller.rows[i]["date"] = RawBad /\ caller.rows[i]["headline"] = NaN
    /\ ~result.valid

\* C9: with all five columns present and a null in a required column,
\* validate_data returns invalid and its count map has exactly the columns
\* that hold nulls, each with its number of nulls.
C9_NullCountMap ==
    (/\ Done("validate_data")
     /\ Required \subseteq caller.cols
     /\ \E c \in Required : NullsIn(caller, c) # {}) =>
      /\ ~result.valid
      /\ result.reason.kind = "Found null values in columns"
      /\ DOMAIN result.reason.counts = {c \in Required : NullsIn(caller, c) # {}}
      /\ \A c \in DOMAIN result.reason.counts :
           result.reason.counts[c] = Cardinality(NullsIn(caller, c))

\* C9 witness: two columns hold nulls, with different counts, and a third
\* column holds none.
C9_Witness ==
    /\ Done("validate_data")
    /\ Required \subseteq caller.cols
    /\ Cardinality(NullsIn(caller, "headline")) = 2
    /\ Cardinality(NullsIn(caller, "stock")) = 1
    /\ NullsIn(caller, "url") = {}
    /\ DOMAIN result.reason.counts = {"headline", "stock"}

LoadOrder == <<"exists", "read_csv", "empty_check", "validate_data", "to_datetime">>
LoadOrderUnvalidated == <<"exists", "read_csv", "empty_check", "to_datetime">>

\* C2: load_data checks existence, then emptiness, then validity: a missing
\* path raises FileNotFoundError before anything is read, a file with no
\* rows raises EmptyDataError before the validator runs, a table the
\* validator rejects raises DataValidationError carrying the validator's
\* reason unchanged, and none of the three hands a table back.
C2_LoadOrder ==
    fn = "load_data" =>
      /\ IsPrefix(ran, IF args.validate THEN LoadOrder ELSE LoadOrderUnvalidated)
      /\ (pc = "done" /\ ~file.exists) =>
           /\ result.status = "raised" /\ result.err = "FileNotFoundError"
           /\ ran = <<"exists">>
           /\ result.table = NoTable
      /\ (pc = "done" /\ file.exists /\ Len(file.rows) = 0) =>
           /\ result.status = "raised" /\ result.err = "EmptyDataError"
           /\ "validate_data" \notin Range(ran)
           /\ result.table = NoTable
      /\ (/\ pc = "done" /\ file.exists /\ Len(file.rows) > 0 /\ args.validate
          /\ ~validate_data(read_csv(file)).valid) =>
           /\ result.status = "raised" /\ result.err = "DataValidationError"
           /\ result.reason = validate_data(read_csv(file)).reason
           /\ result.table = NoTable

\* C2 witness: a file with rows whose headline field is empty was loaded
\* with validation and rejected for its nulls.
C2_Witness ==
    /\ Done("load_data") /\ args.validate
    /\ Len(file.rows) = 2
    /\ result.err = "DataValidationError"
    /\ result.reason.kind = "Found null values in columns"
    /\ ran = <<"exists", "read_csv", "empty_check", "validate_data">>

\* C3: every existing file with at least one data row loads with
\* validate=False, and the table returned has its date column coerced.
C3_UnvalidatedLoadSucceeds ==
    (/\ Done("load_data") /\ ~args.validate
     /\ file.exists /\ Len(file.rows) >= 1) =>
      /\ result.status = "returned"
      /\ "date" \in result.table.cols
      /\ \A i \in 1..Len(result.table.rows) :
           result.table.rows[i]["date"] \in AwareTimestamps \cup NaiveTimestamps \cup {NaT}

PipelineOrder ==
    <<"empty_check", "copy", "standardize_column_names", "parse_dates",
      "handle_missing_values", "headline_length", "publisher_counts",
      "daily_counts", "return">>

\* C4: preprocess_data on a non-empty table with the five columns in any
\* letter case, no missing value and only parseable date strings returns a
\* table with lowercase column names, a timezone-naive timestamp in every
\* row of date, no missing value and as many rows as the input.
C4_EndToEnd ==
    (/\ Done("preprocess_data")
     /\ {StdName(c) : c \in caller.cols} = Required
     /\ Len(caller.rows) >= 1
     /\ \A i \in 1..Len(caller.rows) :
          \A c \in caller.cols :
            IF StdName(c) = "date" THEN caller.rows[i][c] \in {RawM4, RawM5}
            ELSE caller.rows[i][c] # NaN) =>
      /\ result.status = "returned"
      /\ \A c \in result.table.cols : StdName(c) = c
      /\ Len(result.table.rows) = Len(caller.rows)
      /\ \A i \in 1..Len(result.table.rows) :
           /\ result.table.rows[i]["date"] \in NaiveTimestamps
           /\ \A c \in result.table.cols : result.table.rows[i][c] \notin {NaN, NaT}

\* C5: no step of preprocess_data changes the caller's table, whether the
\* call returns or fails.
C5_CallerUntouched == [][fn = "preprocess_data" => caller' = caller]_vars

\* C5 witness: the call returned a table that differs from the caller's in
\* its column names and in its date values.
C5_Witness ==
    /\ Done("preprocess_data")
    /\ result.status = "returned"
    /\ caller.cols = {"Headline", "URL", "Publisher", "Date", "Stock"}
    /\ \E i \in 1..Len(result.table.rows) : result.table.rows[i]["date"] = NaiveM4

\* C6: preprocess_data runs empty check, copy, Standardizer, Date Parser on
\* column date, Missing-Value Handler on date, headline and stock in that
\* order, each on the result of the one before; a table with no rows fails
\* at the empty check with nothing else run; a failing step ends the call
\* with the error of that step and no table.
C6_LinearPipeline ==
    fn = "preprocess_data" =>
      /\ IsPrefix(ran, PipelineOrder)
      /\ (pc = "done" /\ Len(caller.rows) = 0) =>
           /\ ran = <<"empty_check">>
           /\ result.status = "raised" /\ result.err = "ValueError"
           /\ result.msg = "Input DataFrame is empty"
           /\ df = NoTable
      /\ pc = "parse_dates" =>
           /\ Last(ran) = "standardize_column_names"
           /\ \A c \in df.cols : StdName(c) = c
      /\ pc = "handle_missing_values" =>
           /\ Last(ran) = "parse_dates"
           /\ \A i \in 1..Len(df.rows) : df.rows[i]["date"] \in NaiveTimestamps \cup {NaT}
      /\ pc = "headline_length" =>
           /\ Last(ran) = "handle_missing_values"
           /\ \A i \in 1..Len(df.rows) :
                \A c \in {"date", "headline", "stock"} : df.rows[i][c] \notin {NaN, NaT}
      /\ result.status = "raised" =>
           /\ pc = "done"
           /\ result.table = NoTable
           /\ Last(ran) = "parse_dates" =>
                \E o \in parse_dates(standardize_column_names(caller), "date") :
                  ~o.ok /\ o.err = result.err /\ o.msg = result.msg
           /\ Last(ran) = "handle_missing_values" =>
                /\ result.err = "KeyError"
                /\ ~({"date", "headline", "stock"} \subseteq df.cols)
      /\ result.status = "returned" => ran = PipelineOrder

\* C6 witness: the Date Parser failed on an unparseable value and the call
\* ended there.
C6_Witness ==
    /\ Done("preprocess_data")
    /\ ran = <<"empty_check", "copy", "standardize_column_names", "parse_dates">>
    /\ result.status = "raised" /\ result.msg = "unparseable"

\* The columns handle_missing_values was asked to look at
AskedCols == IF args.required_cols.given THEN args.required_cols.cols
             ELSE {"date", "headline", "stock"}

Complete(t, cols) == {i \in 1..Len(t.rows) : \A c \in cols : t.rows[i][c] \notin {NaN, NaT}}

\* C7: handle_missing_values returns the rows of its input that have no
\* missing value in the required columns, all of them and only them, in
\* their original order and over the same columns.
C7_DropExactlyIncomplete ==
    (Done("handle_missing_values") /\ result.status = "returned") =>
      LET out == result.table
          kept == Complete(caller, AskedCols)
      IN /\ out.cols = caller.cols
         /\ Len(out.rows) = Cardinality(kept)
         /\ \E f \in [1..Len(out.rows) -> kept] :
              /\ \A j, k \in 1..Len(out.rows) : j < k => f[j] < f[k]
              /\ \A j \in 1..Len(out.rows) : out.rows[j] = caller.rows[f[j]]
         /\ \A j \in 1..Len(out.rows) :
              \A c \in AskedCols : out.rows[j][c] \notin {NaN, NaT}

\* C7 witness: one row was dropped and one kept, the kept row having a
\* missing value in a column that is not required.
C7_Witness ==
    /\ Done("handle_missing_values") /\ result.status = "returned"
    /\ Len(caller.rows) = 2 /\ Len(result.table.rows) = 1
    /\ "publisher" \in caller.cols /\ "publisher" \notin AskedCols
    /\ result.table.rows[1]["publisher"] = NaN

\* C8 as stated: parse_dates called on a table without the named column
\* raises ValueError naming the column, with no parse attempted; every failing
\* call leaves the table as it was; a successful call leaves a timezone-naive
\* timestamp in every row of the column.
C8_Original ==
    [][(fn = "parse_dates" /\ pc = "start") =>
         /\ (args.date_col \notin caller.cols) =>
              /\ result'.status = "raised" /\ result'.err = "ValueError"
              /\ result'.msg = args.date_col
              /\ log' = log
         /\ (result'.status = "raised") => caller' = caller
         /\ (result'.status = "returned") =>
              \A i \in 1..Len(caller'.rows) :
                caller'.rows[i][args.date_col] \in NaiveTimestamps]_vars

\* C8 amended: parse_dates called on a table without the named column raises
\* ValueError naming the column, with no parse attempted; every failing call
\* leaves the table as it was; a successful call leaves the other columns as
\* they were and, in the named column, a timezone-naive timestamp in every
\* row whose value was not missing and the missing timestamp NaT in every
\* row whose value was missing.
C8_ParseAllOrNothing ==
    [][(fn = "parse_dates" /\ pc = "start") =>
         /\ (args.date_col \notin caller.cols) =>
              /\ result'.status = "raised" /\ result'.err = "ValueError"
              /\ result'.msg = args.date_col
              /\ log' = log
         /\ (result'.status = "raised") => caller' = caller
         /\ (result'.status = "returned") =>
              /\ caller'.cols = caller.cols
              /\ \A i \in 1..Len(caller'.rows) :
                   /\ caller.rows[i][args.date_col] \notin {NaN, NaT} =>
                        caller'.rows[i][args.date_col] \in NaiveTimestamps
                   /\ caller.rows[i][args.date_col] \in {NaN, NaT} =>
                        caller'.rows[i][args.date_col] = NaT
                   /\ \A c \in caller.cols \ {args.date_col} :
                        caller'.rows[i][c] = caller.rows[i][c]]_vars

\* C8 witness: a call failed on an unparseable value in the second row
\* while the first row held a date that parses.
C8_Witness ==
    /\ Done("parse_dates")
    /\ result.status = "raised" /\ result.msg = "unparseable"
    /\ Len(caller.rows) = 2
    /\ caller.rows[1][args.date_col] = RawM4
    /\ caller.rows[2][args.date_col] = RawBad

\* C10: every call of a public function that ends in an error has logged an
\* ERROR record by the time the error reaches the caller.
C10_FailureLogged ==
    result.status = "raised" => \E i \in DOMAIN log : log[i].level = "ERROR"

====
